---- MODULE Spec2Model ----
(***************************************************************************)
(* scrapemachine: one run of the slot scraper of index.js.                 *)
(*                                                                         *)
(* A run builds the query window, launches one request per date, waits for *)
(* all of them, parses the collected responses into an HTML report, fetches*)
(* the tournament table and delivers the report (mail, or tmp.html in      *)
(* dry-run mode).                                                          *)
(*                                                                         *)
(* Representation.                                                         *)
(*  - An instant is a number of minutes since 1970-01-01T00:00Z (a         *)
(*    Thursday); a calendar date is a day number since that day.  ISO date *)
(*    strings of equal length sort as their day numbers do.                *)
(*  - A time string is a sequence of one-character strings, so that        *)
(*    padStart, the 12-hour label and the code-unit order of               *)
(*    Array.prototype.sort are computed character by character.            *)
(*  - A response body is [ok, date, columns]: ok is the truthiness of      *)
(*    dayData && dayData.one && dayData.one.columns; a column carries      *)
(*    hasFacility / hasPieces for the two fields whose absence makes the   *)
(*    parser raise.  piece.end and slot.end / slot.date are never read by  *)
(*    the renderer and are left out.                                       *)
(***************************************************************************)
EXTENDS Integers, Sequences, FiniteSets, TLC

VARIABLES
    pc,             \* position of the run
    isDryRun,       \* process.argv.includes('--dry-run')
    now,            \* the instant new Date() returns (minutes since epoch, UTC)
    tzOffset,       \* local time zone, minutes east of UTC
    requests,       \* formatted dates in launch order
    pending,        \* dates whose request has not settled
    outcomes,       \* date -> the record the request's promise resolved to
    results,        \* the results object: entries [date, data] in insertion order
    availableSlots, \* rawDate -> freeSlots, as parseApiResponse built it
    parsed,         \* <<>> or <<[htmlContent, slotCount]>>
    tournamentHtml, \* <<>> or <<fragment>>
    sent,           \* mailOptions handed to transporter.sendMail, in order
    written,        \* bodies handed to fs.writeFileSync('tmp.html'), in order
    logged          \* console messages of interest

vars == <<pc, isDryRun, now, tzOffset, requests, pending, outcomes, results,
          availableSlots, parsed, tournamentHtml, sent, written, logged>>

----------------------------------------------------------------------------
(* Bounds of the model *)

\* The loop of scrapeWebsite runs i = 0 .. 7; the model runs i = 0 .. MaxDays-1.
MaxDays == 2

\* Instants at which the run starts: Monday 09:00Z (day 4), Friday 23:00Z
\* (day 1) and Saturday 09:00Z (day 2).
NowSet == { 4 * 1440 + 540, 1 * 1440 + 1380, 2 * 1440 + 540 }

\* Time zones of the host: UTC and UTC+2.
TzSet == { 0, 120 }

----------------------------------------------------------------------------
(* Strings *)

Digits == <<"0", "1", "2", "3", "4", "5", "6", "7", "8", "9">>

\* UTF-16 code unit of the characters that occur in time strings.
CharCode(c) ==
    CASE c = " " -> 32
      [] c = "0" -> 48 [] c = "1" -> 49 [] c = "2" -> 50 [] c = "3" -> 51
      [] c = "4" -> 52 [] c = "5" -> 53 [] c = "6" -> 54 [] c = "7" -> 55
      [] c = "8" -> 56 [] c = "9" -> 57
      [] c = ":" -> 58
      [] c = "A" -> 65 [] c = "M" -> 77 [] c = "P" -> 80

\* n.toString()
RECURSIVE NumToString(_)
NumToString(n) ==
    IF n < 10 THEN <<Digits[n + 1]>>
    ELSE NumToString(n \div 10) \o <<Digits[(n % 10) + 1]>>

\* s.padStart(2, '0')
PadStart2(s) == IF Len(s) < 2 THEN <<"0">> \o s ELSE s

\* a < b in the order of the default Array.prototype.sort comparison
RECURSIVE StrLess(_, _)
StrLess(a, b) ==
    IF a = <<>> THEN b # <<>>
    ELSE IF b = <<>> THEN FALSE
    ELSE IF Head(a) = Head(b) THEN StrLess(Tail(a), Tail(b))
    ELSE CharCode(Head(a)) < CharCode(Head(b))

\* Object.keys(o).sort() for string keys
RECURSIVE SortStrings(_)
SortStrings(S) ==
    IF S = {} THEN <<>>
    ELSE CHOOSE sorted \in
            { <<m>> \o SortStrings(S \ {m}) :
              m \in { x \in S : \A y \in S \ {x} : StrLess(x, y) } } : TRUE

\* Object.keys(o).sort() for ISO date keys
RECURSIVE SortDates(_)
SortDates(S) ==
    IF S = {} THEN <<>>
    ELSE CHOOSE sorted \in
            { <<m>> \o SortDates(S \ {m}) :
              m \in { x \in S : \A y \in S : x <= y } } : TRUE

\* arr.includes(x)
Includes(arr, x) == \E i \in 1..Len(arr) : arr[i] = x

\* acc = Op(acc, x) for each x of s, in order.  Here and below a value that
\* is used more than once is bound through a singleton set, so that it is
\* evaluated once.
RECURSIVE FoldSeq(_, _, _)
FoldSeq(Op(_, _), acc, s) ==
    IF s = <<>> THEN acc
    ELSE CHOOSE r \in { FoldSeq(Op, v, Tail(s)) : v \in {Op(acc, Head(s))} } : TRUE

----------------------------------------------------------------------------
(* Configuration *)

whitelistFacilities == <<"Pista 1", "Pista 2", "Pista Cristal", "Pista San Pablo">>

whitelistedStartTimes ==
    << <<"1", "9", ":", "0", "0">>,
       <<"1", "9", ":", "3", "0">>,
       <<"2", "0", ":", "3", "0">>,
       <<"2", "1", ":", "0", "0">>,
       <<"2", "2", ":", "0", "0">> >>

----------------------------------------------------------------------------
(* Dates and times *)

\* Date.prototype.getDay of the local calendar day n (day 0 is a Thursday)
getDay(n) == (n + 4) % 7

\* formatDate(date): the UTC calendar date of the instant
formatDate(date) == date \div 1440

\* local minute of the day of an instant
LocalMinutes(instant) == (instant + tzOffset) % 1440

\* `${hours padded}:${minutes padded}` of the local wall clock
StartTime(instant) ==
    PadStart2(NumToString(LocalMinutes(instant) \div 60)) \o <<":">>
        \o PadStart2(NumToString(LocalMinutes(instant) % 60))

\* toLocaleTimeString(.., {hour: '2-digit', minute: '2-digit', hour12: true})
\* in the en-US locale: "07:00 PM"
FormattedTime(instant) ==
    LET h  == LocalMinutes(instant) \div 60
        h12 == IF h % 12 = 0 THEN 12 ELSE h % 12
    IN  PadStart2(NumToString(h12)) \o <<":">>
            \o PadStart2(NumToString(LocalMinutes(instant) % 60))
            \o <<" ", IF h < 12 THEN "A" ELSE "P", "M">>

\* The for loop of scrapeWebsite: the formatted dates it launches a request
\* for, in loop order.  setDate(getDate() + i) keeps the local wall clock, so
\* the instant moves by i whole days.
RECURSIVE WindowFrom(_, _)
WindowFrom(i, h) ==
    IF i >= h THEN <<>>
    ELSE LET date == now + i * 1440
             day  == getDay((date + tzOffset) \div 1440)
         IN  IF day = 0 \/ day = 6
             THEN WindowFrom(i + 1, h)
             ELSE <<formatDate(date)>> \o WindowFrom(i + 1, h)

QueryWindow == WindowFrom(0, MaxDays)

SeqToSet(s) == { s[i] : i \in 1..Len(s) }

----------------------------------------------------------------------------
(* Response bodies the timetable API can answer a request for date d with *)

Piece(mark, ini) == [mark |-> mark, ini |-> ini]

Column(name, pieces) ==
    [hasFacility |-> TRUE, name |-> name, hasPieces |-> TRUE, pieces |-> pieces]

\* a column object without a facility object
ColumnNoFacility(pieces) ==
    [hasFacility |-> FALSE, name |-> "", hasPieces |-> TRUE, pieces |-> pieces]

\* a column object without a pieces list
ColumnNoPieces(name) ==
    [hasFacility |-> TRUE, name |-> name, hasPieces |-> FALSE, pieces |-> <<>>]

Day(date, columns) == [ok |-> TRUE, date |-> date, columns |-> columns]

\* a body that is no timetable object (an HTML error page, null, {})
NotATimetable == [ok |-> FALSE, date |-> 0, columns |-> <<>>]

\* instants of day d: 07:30Z, 19:00Z and 19:30Z
Morning(d) == d * 1440 + 450
Evening(d) == d * 1440 + 1140
Later(d)   == d * 1440 + 1170

Payloads(d) ==
    { NotATimetable,
      \* a listed facility, the same free piece listed twice, one taken piece
      Day(d, << Column("Pista 1", << Piece("FREE", Evening(d)),
                                     Piece("FREE", Evening(d)),
                                     Piece("BUSY", Later(d)) >>) >>),
      \* an unlisted facility, and a listed one free in the morning and evening
      Day(d, << Column("Pista 3", << Piece("FREE", Evening(d)) >>),
                Column("Pista 2", << Piece("FREE", Evening(d)),
                                     Piece("FREE", Morning(d)) >>) >>),
      \* nothing free at a listed time
      Day(d, << Column("Pista 1", << Piece("BUSY", Evening(d)),
                                     Piece("FREE", Morning(d)) >>) >>),
      \* a column without a facility object after a well-formed one
      Day(d, << Column("Pista 1", << Piece("BUSY", Evening(d)) >>),
                ColumnNoFacility(<< Piece("FREE", Evening(d)) >>) >>),
      \* an unlisted facility without a pieces list
      Day(d, << ColumnNoPieces("Pista 3") >>),
      \* the timetable of the day before
      Day(d - 1, << Column("Pista 2", << Piece("FREE", Evening(d - 1)) >>) >>) }

----------------------------------------------------------------------------
(* parseApiResponse *)

\* piece.mark === 'FREE'
IsFree(piece) == piece.mark = "FREE"

\* !(!config.whitelistFacilities.includes(facilityName) && !isDryRun)
FacilityAdmitted(facilityName) ==
    Includes(whitelistFacilities, facilityName) \/ isDryRun

\* Faulty variant: the start-time test is missing
StartTimeAdmitted_NoTest(startTime) == TRUE

\* !(!config.whitelistedStartTimes.includes(startTime) && !isDryRun)
StartTimeAdmitted(startTime) ==
    Includes(whitelistedStartTimes, startTime) \/ isDryRun

\* Faulty variant: totalSlotCount++ is missing
PieceStep_NoCount(acc, piece, facilityName) ==
    IF IsFree(piece) /\ StartTimeAdmitted(StartTime(piece.ini))
    THEN [acc EXCEPT
            !.freeSlots = Append(@, [facility |-> facilityName,
                                     start    |-> FormattedTime(piece.ini)])]
    ELSE acc

\* body of column.pieces.forEach; acc = [raised, freeSlots, count]
PieceStep(acc, piece, facilityName) ==
    IF IsFree(piece) /\ StartTimeAdmitted(StartTime(piece.ini))
    THEN [acc EXCEPT
            !.freeSlots = Append(@, [facility |-> facilityName,
                                     start    |-> FormattedTime(piece.ini)]),
            !.count = @ + 1]
    ELSE acc

\* body of dayData.one.columns.forEach; a raise skips everything after it
ColumnStep(acc, column) ==
    IF acc.raised THEN acc
    ELSE IF ~column.hasFacility THEN [acc EXCEPT !.raised = TRUE]
    ELSE IF ~FacilityAdmitted(column.name) THEN acc
    ELSE IF ~column.hasPieces THEN [acc EXCEPT !.raised = TRUE]
    ELSE FoldSeq(LAMBDA a, p : PieceStep(a, p, column.name), acc, column.pieces)

\* availableSlots[rawDate] = freeSlots
PutKey(obj, key, value) ==
    [k \in DOMAIN obj \cup {key} |-> IF k = key THEN value ELSE obj[k]]

\* body of Object.keys(data).forEach;
\* acc = [raised, availableSlots, totalSlotCount]
DayStep(acc, entry) ==
    IF acc.raised \/ ~entry.data.ok THEN acc
    ELSE CHOOSE next \in
            { IF r.raised
              THEN [acc EXCEPT !.raised = TRUE, !.totalSlotCount = r.count]
              ELSE [acc EXCEPT
                      !.totalSlotCount = r.count,
                      !.availableSlots =
                          IF Len(r.freeSlots) > 0
                          THEN PutKey(@, entry.data.date, r.freeSlots)
                          ELSE @] :
              r \in { FoldSeq(ColumnStep,
                              [raised |-> FALSE, freeSlots |-> <<>>,
                               count |-> acc.totalSlotCount],
                              entry.data.columns) } } : TRUE

\* the first half of parseApiResponse: filtering
FilterSlots(data) ==
    FoldSeq(DayStep,
            [raised |-> FALSE, availableSlots |-> [d \in {} |-> <<>>],
             totalSlotCount |-> 0],
            data)

\* timeSlots: start -> facilities, in the order the slots are listed
TimeSlotsOf(slots) ==
    FoldSeq(LAMBDA ts, slot :
                PutKey(ts, slot.start,
                       IF slot.start \in DOMAIN ts
                       THEN Append(ts[slot.start], slot.facility)
                       ELSE <<slot.facility>>),
            [t \in {} |-> <<>>], slots)

\* Object.keys(timeSlots).sort()
SortedTimes(timeSlots) == SortStrings(DOMAIN timeSlots)

\* Faulty variant: a <td> per entry of timeSlots[time]: list instead of set semantics
RenderRow_PerEntry(timeSlots, time) ==
    [time  |-> time,
     cells |-> [i \in 1..Len(timeSlots[time]) |-> time]]

\* one <tr>: a <td> per configured facility, <<>> for the empty <td></td>
RenderRow(timeSlots, time) ==
    [time  |-> time,
     cells |-> [i \in 1..Len(whitelistFacilities) |->
                  IF Includes(timeSlots[time], whitelistFacilities[i])
                  THEN time ELSE <<>>]]

\* one <h3> and <table> of a date
RenderSection(slotsByDate, rawDate) ==
    CHOOSE section \in
        { [date   |-> rawDate,
           header |-> whitelistFacilities,
           rows   |-> [i \in 1..Len(sortedTimes) |->
                         RenderRow(timeSlots, sortedTimes[i])]] :
          <<timeSlots, sortedTimes>> \in
              { <<ts, SortedTimes(ts)>> :
                ts \in {TimeSlotsOf(slotsByDate[rawDate])} } } : TRUE

\* Faulty variant: the emptiness test of availableSlots is missing
RenderHtml_NoNotice(slotsByDate) ==
    CHOOSE html \in
        { [kind |-> "tables",
           sections |-> [i \in 1..Len(sortedDates) |->
                           RenderSection(slotsByDate, sortedDates[i])]] :
          sortedDates \in {SortDates(DOMAIN slotsByDate)} } : TRUE

\* the second half of parseApiResponse: rendering
RenderHtml(slotsByDate) ==
    IF DOMAIN slotsByDate = {}
    THEN [kind |-> "notice", sections |-> <<>>]
    ELSE CHOOSE html \in
            { [kind |-> "tables",
               sections |-> [i \in 1..Len(sortedDates) |->
                               RenderSection(slotsByDate, sortedDates[i])]] :
              sortedDates \in {SortDates(DOMAIN slotsByDate)} } : TRUE

\* Faulty variant: the catch block reports the slots counted before the raise
CatchResult_KeepsCount(acc) ==
    [htmlContent |-> [kind |-> "error", sections |-> <<>>],
     slotCount   |-> acc.totalSlotCount]

\* the catch block of parseApiResponse
CatchResult(acc) ==
    [htmlContent |-> [kind |-> "error", sections |-> <<>>], slotCount |-> 0]

parseApiResponse(data) ==
    CHOOSE result \in
        { IF acc.raised THEN CatchResult(acc)
          ELSE [htmlContent |-> RenderHtml(acc.availableSlots),
                slotCount   |-> acc.totalSlotCount] :
          acc \in {FilterSlots(data)} } : TRUE

----------------------------------------------------------------------------
(* Run *)

Init ==
    /\ pc = "start"
    /\ isDryRun \in BOOLEAN
    /\ now \in NowSet
    /\ tzOffset \in TzSet
    /\ requests = <<>>
    /\ pending = {}
    /\ outcomes = [d \in {} |-> FALSE]
    /\ results = <<>>
    /\ availableSlots = [d \in {} |-> <<>>]
    /\ parsed = <<>>
    /\ tournamentHtml = <<>>
    /\ sent = <<>>
    /\ written = <<>>
    /\ logged = {}

\* scrapeWebsite up to `await Promise.all(requests)`
Launch ==
    /\ pc = "start"
    /\ requests' = QueryWindow
    /\ pending' = SeqToSet(QueryWindow)
    /\ pc' = "waiting"
    /\ UNCHANGED <<isDryRun, now, tzOffset, outcomes, results, availableSlots,
                   parsed, tournamentHtml, sent, written, logged>>

\* results[formattedDate] = response.data
PutResult(obj, date, data) ==
    IF \E i \in 1..Len(obj) : obj[i].date = date
    THEN [i \in 1..Len(obj) |->
            IF obj[i].date = date THEN [date |-> date, data |-> data] ELSE obj[i]]
    ELSE Append(obj, [date |-> date, data |-> data])

\* the .then callback of the request for date d
Resolve(d, data) ==
    /\ d \in pending
    /\ pending' = pending \ {d}
    /\ results' = PutResult(results, d, data)
    /\ outcomes' = PutKey(outcomes, d, [success |-> TRUE])
    /\ UNCHANGED <<pc, isDryRun, now, tzOffset, requests, availableSlots,
                   parsed, tournamentHtml, sent, written, logged>>

\* the .catch callback of the request for date d
Reject(d) ==
    /\ d \in pending
    /\ pending' = pending \ {d}
    /\ outcomes' = PutKey(outcomes, d, [success |-> FALSE])
    /\ logged' = logged \cup {"Error fetching data"}
    /\ UNCHANGED <<pc, isDryRun, now, tzOffset, requests, results,
                   availableSlots, parsed, tournamentHtml, sent, written>>

\* Faulty variant: Promise.race in place of Promise.all: one settled request suffices
AnySettled == requests = <<>> \/ pending # SeqToSet(requests)

\* Promise.all(requests) is fulfilled: every request promise has settled
AllSettled == pending = {}

\* scrapeWebsite from the fulfilment of Promise.all to the await inside
\* scrapeTournamentData
Parse ==
    /\ pc = "waiting"
    /\ AllSettled
    /\ parsed' = <<parseApiResponse(results)>>
    /\ \E acc \in {FilterSlots(results)} :
          /\ availableSlots' = acc.availableSlots
          /\ logged' = IF acc.raised
                       THEN logged \cup {"Error parsing API response"}
                       ELSE logged
    /\ pc' = "ranking"
    /\ UNCHANGED <<isDryRun, now, tzOffset, requests, pending, outcomes,
                   results, tournamentHtml, sent, written>>

\* what scrapeTournamentData can return: the table, the 'not available'
\* fallback, the 'Error fetching' fallback
TournamentFragments ==
    {"table", "Tournament table not available", "Error fetching tournament data"}

\* sendEmail up to its first suspension point (or to its return in dry-run)
sendEmail(content, slotCount, tournamentData, writeOk) ==
    LET mailOptions ==
            [subject |-> slotCount,
             html    |-> [content |-> content, tournamentData |-> tournamentData]]
    IN  IF isDryRun
        THEN /\ written' = Append(written, mailOptions.html)
             /\ logged' = logged \cup
                    {IF writeOk THEN "Output saved to tmp.html"
                                ELSE "Error saving to tmp.html"}
             /\ pc' = "done"
             /\ UNCHANGED sent
        ELSE /\ sent' = Append(sent, mailOptions)
             /\ pc' = "sending"
             /\ UNCHANGED <<written, logged>>

\* the tournament request settles; scrapeWebsite resumes and calls sendEmail
TournamentSettles ==
    /\ pc = "ranking"
    /\ \E fragment \in TournamentFragments, writeOk \in BOOLEAN :
          /\ tournamentHtml' = <<fragment>>
          /\ sendEmail(parsed[1].htmlContent, parsed[1].slotCount, fragment, writeOk)
    /\ UNCHANGED <<isDryRun, now, tzOffset, requests, pending, outcomes,
                   results, availableSlots, parsed>>

\* transporter.sendMail fulfils
SendMailResolves ==
    /\ pc = "sending"
    /\ logged' = logged \cup {"Email sent"}
    /\ pc' = "done"
    /\ UNCHANGED <<isDryRun, now, tzOffset, requests, pending, outcomes, results,
                   availableSlots, parsed, tournamentHtml, sent, written>>

\* Faulty variant: the catch block of sendEmail sends again
SendMailRejects_Retry ==
    /\ pc = "sending"
    /\ sent' = Append(sent, sent[1])
    /\ logged' = logged \cup {"Error sending email"}
    /\ UNCHANGED <<pc, isDryRun, now, tzOffset, requests, pending, outcomes,
                   results, availableSlots, parsed, tournamentHtml, written>>

\* Faulty variant: sendEmail has no catch block: the rejection leaves the run
SendMailRejects_Uncaught ==
    /\ pc = "sending"
    /\ pc' = "crashed"
    /\ UNCHANGED <<isDryRun, now, tzOffset, requests, pending, outcomes, results,
                   availableSlots, parsed, tournamentHtml, sent, written, logged>>

\* transporter.sendMail rejects: the catch block of sendEmail
SendMailRejects ==
    /\ pc = "sending"
    /\ logged' = logged \cup {"Error sending email"}
    /\ pc' = "done"
    /\ UNCHANGED <<isDryRun, now, tzOffset, requests, pending, outcomes, results,
                   availableSlots, parsed, tournamentHtml, sent, written>>

Next ==
    \/ Launch
    \/ \E d \in pending : \E data \in Payloads(d) : Resolve(d, data)
    \/ \E d \in pending : Reject(d)
    \/ Parse
    \/ TournamentSettles
    \/ SendMailResolves
    \/ SendMailRejects

Spec == Init /\ [][Next]_vars

\* every request, the tournament fetch and the send eventually settle
\* The event loop runs every continuation that is ready, and every
\* outstanding request (per-date fetch, tournament fetch, send) eventually
\* settles.
FairSpec == Spec /\ WF_vars(Next)

----------------------------------------------------------------------------
(* The query window alone, with the horizon of the source *)

\* for (let i = 0; i < 8; i++)
Horizon == 8

\* Instants at which the run starts: every day of a week (days 7 .. 13,
\* Thursday to Wednesday), at 00:30Z, 12:00Z and 23:30Z.
WindowNowSet == { d * 1440 + m : d \in 7..13, m \in {30, 720, 1410} }

\* Time zones of the host: UTC-5, UTC and UTC+2.
WindowTzSet == { -300, 0, 120 }

WindowInit ==
    /\ pc = "start"
    /\ isDryRun \in BOOLEAN
    /\ now \in WindowNowSet
    /\ tzOffset \in WindowTzSet
    /\ requests = <<>>
    /\ pending = {}
    /\ outcomes = [d \in {} |-> FALSE]
    /\ results = <<>>
    /\ availableSlots = [d \in {} |-> <<>>]
    /\ parsed = <<>>
    /\ tournamentHtml = <<>>
    /\ sent = <<>>
    /\ written = <<>>
    /\ logged = {}

\* scrapeWebsite up to `await Promise.all(requests)`, all eight iterations
LaunchWindow ==
    /\ pc = "start"
    /\ requests' = WindowFrom(0, Horizon)
    /\ pending' = SeqToSet(WindowFrom(0, Horizon))
    /\ pc' = "waiting"
    /\ UNCHANGED <<isDryRun, now, tzOffset, outcomes, results, availableSlots,
                   parsed, tournamentHtml, sent, written, logged>>

WindowSpec == WindowInit /\ [][LaunchWindow]_vars

----------------------------------------------------------------------------
(* Vocabulary of the properties *)

\* the rendered report, once parseApiResponse has returned
Report == parsed[1].htmlContent

\* the bodies handed to the delivery step, in order
Delivered == IF isDryRun THEN written ELSE [i \in 1..Len(sent) |-> sent[i].html]

\* every piece of every stored timetable that sits in a column with a
\* facility object and a pieces list
AllPieces ==
    UNION { UNION { { [date     |-> results[i].data.date,
                       facility |-> results[i].data.columns[j].name,
                       piece    |-> results[i].data.columns[j].pieces[k],
                       pos      |-> <<i, j, k>>] :
                      k \in 1..Len(results[i].data.columns[j].pieces) } :
                    j \in { j \in 1..Len(results[i].data.columns) :
                              /\ results[i].data.columns[j].hasFacility
                              /\ results[i].data.columns[j].hasPieces } } :
            i \in { i \in 1..Len(results) : results[i].data.ok } }

\* the piece passes the three tests of normal mode
PassesWhitelist(p) ==
    /\ p.piece.mark = "FREE"
    /\ p.facility \in SeqToSet(whitelistFacilities)
    /\ StartTime(p.piece.ini) \in SeqToSet(whitelistedStartTimes)

\* the piece survives the filter of the running mode
Survives(p) ==
    IF isDryRun THEN p.piece.mark = "FREE" ELSE PassesWhitelist(p)

\* some stored timetable has a shape that makes the parser raise
ParseRaises ==
    \E i \in 1..Len(results) :
        /\ results[i].data.ok
        /\ \E j \in 1..Len(results[i].data.columns) :
              LET column == results[i].data.columns[j]
              IN  \/ ~column.hasFacility
                  \/ /\ ~column.hasPieces
                     /\ (isDryRun \/ column.name \in SeqToSet(whitelistFacilities))

\* <<date of the section, text of the cell, facility of the column>> of every
\* non-empty <td> of a report
OccupiedCells(html) ==
    UNION { UNION { { <<html.sections[s].date,
                        html.sections[s].rows[r].cells[c],
                        html.sections[s].header[c]>> :
                      c \in { c \in 1..Len(html.sections[s].rows[r].cells) :
                                html.sections[s].rows[r].cells[c] # <<>> } } :
                    r \in 1..Len(html.sections[s].rows) } :
            s \in 1..Len(html.sections) }

\* the cell a piece is shown in
CellOf(p) == <<p.date, FormattedTime(p.piece.ini), p.facility>>

\* minutes since midnight of a 12-hour label "hh:mm AM" / "hh:mm PM"
LabelMinutes(label) ==
    LET hh == (CharCode(label[1]) - 48) * 10 + (CharCode(label[2]) - 48)
        mm == (CharCode(label[4]) - 48) * 10 + (CharCode(label[5]) - 48)
    IN  ((hh % 12) + (IF label[7] = "P" THEN 12 ELSE 0)) * 60 + mm

FailedDates   == { d \in DOMAIN outcomes : ~outcomes[d].success }
SucceededDates == { d \in DOMAIN outcomes : outcomes[d].success }
StoredDates   == { results[i].date : i \in 1..Len(results) }

----------------------------------------------------------------------------
(* Properties *)

\* C1: parsing, rendering and delivery start only after every launched
\* request has settled: once parseApiResponse has read the results (and at
\* every later step) no request is outstanding and every launched date has
\* its outcome.
C1_FetchBarrier ==
    (pc \in {"ranking", "sending", "done"} \/ parsed # <<>>
        \/ sent # <<>> \/ written # <<>>)
    => /\ pending = {}
       /\ DOMAIN outcomes = SeqToSet(requests)

\* C1 witness: a finished run of two requests, one fulfilled and one rejected
C1_Witness ==
    /\ pc = "done"
    /\ Len(requests) = 2
    /\ FailedDates # {}
    /\ SucceededDates # {}

\* C2: a date whose request fails (network error, non-success status or a
\* malformed body) is recorded as failed and is absent from the results
\* mapping, and every free slot of a successfully fetched date that survives
\* the filter is shown in the delivered report.
C2_FailuresIsolated ==
    pc = "done" =>
        \* a rejected request: recorded as failed, nothing stored
        /\ \A d \in FailedDates : d \notin StoredDates
        \* a malformed body counts as a failure: none is stored as a success
        /\ \A i \in 1..Len(results) : results[i].data.ok
        \* the slots of the dates that succeeded are in the delivered report
        /\ \A p \in AllPieces :
              Survives(p) => CellOf(p) \in OccupiedCells(Delivered[1].content)

\* C3: exactly one delivery action per run: at most one in every state, of
\* the kind the mode prescribes, and exactly one when the run has finished.
C3_OneDelivery ==
    /\ Len(sent) + Len(written) <= 1
    /\ isDryRun => sent = <<>>
    /\ ~isDryRun => written = <<>>
    /\ pc = "done" => Len(sent) + Len(written) = 1

\* C3 witness: a finished normal run whose send was rejected after a fetch
\* had failed
C3_Witness ==
    /\ pc = "done"
    /\ ~isDryRun
    /\ "Error sending email" \in logged
    /\ FailedDates # {}
    /\ Len(sent) = 1

\* C4 as stated: whenever no slot survives filtering, the report is the
\* "no slots found" notice without a table, the slot count is 0 and that
\* body is delivered.
C4_NoSlotsNotice_Original ==
    (parsed # <<>> /\ \A p \in AllPieces : ~Survives(p))
    => /\ Report.kind = "notice"
       /\ Report.sections = <<>>
       /\ parsed[1].slotCount = 0
       /\ pc = "done" => /\ Len(Delivered) = 1
                         /\ Delivered[1].content = Report

\* C4 amended: whenever the parser does not raise and no slot survives
\* filtering (in particular when every request failed), the report is the
\* "no slots found" notice without a table, the slot count is 0 and that
\* body is delivered.
C4_NoSlotsNotice ==
    (parsed # <<>> /\ ~ParseRaises /\ \A p \in AllPieces : ~Survives(p))
    => /\ Report.kind = "notice"
       /\ Report.sections = <<>>
       /\ parsed[1].slotCount = 0
       /\ pc = "done" => /\ Len(Delivered) = 1
                         /\ Delivered[1].content = Report

\* C4 witness: both requests of a run were rejected and the notice was
\* delivered
C4_Witness ==
    /\ pc = "done"
    /\ Len(requests) = 2
    /\ results = <<>>
    /\ Len(Delivered) = 1
    /\ Delivered[1].content.kind = "notice"

\* C5: in normal mode every slot that is counted or rendered comes from a
\* piece marked FREE, of a listed facility, at a listed local start time:
\* the count is the number of such pieces (0 when the parser raised) and
\* every non-empty cell is the cell of such a piece.
C5_OnlyWhitelisted ==
    (~isDryRun /\ parsed # <<>>)
    => /\ parsed[1].slotCount =
            IF ParseRaises THEN 0
            ELSE Cardinality({ p \in AllPieces : PassesWhitelist(p) })
       /\ \A cell \in OccupiedCells(Report) :
             \E p \in AllPieces : PassesWhitelist(p) /\ CellOf(p) = cell

\* C5 witness: a normal run counted a slot although the stored timetables
\* also hold a FREE piece of an unlisted facility and one at an unlisted time
C5_Witness ==
    /\ ~isDryRun
    /\ pc = "done"
    /\ parsed[1].slotCount > 0
    /\ \E p \in AllPieces :
          /\ p.piece.mark = "FREE"
          /\ p.facility \notin SeqToSet(whitelistFacilities)
    /\ \E p \in AllPieces :
          /\ p.piece.mark = "FREE"
          /\ p.facility \in SeqToSet(whitelistFacilities)
          /\ StartTime(p.piece.ini) \notin SeqToSet(whitelistedStartTimes)

\* C6: in dry-run mode a FREE piece that fails the normal whitelist (its
\* facility or its start time is not listed) is shown as a non-empty cell of
\* the body written to the local artifact.
C6_DryRunShowsAll ==
    (isDryRun /\ pc = "done" /\ ~ParseRaises)
    => \A p \in AllPieces :
          (p.piece.mark = "FREE" /\ ~PassesWhitelist(p))
          => CellOf(p) \in OccupiedCells(written[1].content)

\* C7: if every outstanding request eventually settles, the run eventually
\* completes normally, whatever failed on the way.
C7_RunCompletes == <>(pc = "done")

\* C7 witness: a run that finished after a fetch error, a parse error, a
\* tournament error and a delivery error
C7_Witness ==
    /\ pc = "done"
    /\ { "Error fetching data", "Error parsing API response",
         "Error sending email" } \subseteq logged
    /\ tournamentHtml = <<"Error fetching tournament data">>

\* C8: when a stored timetable has a shape that makes the parser raise, the
\* report body is the error fragment, the slot count is 0, and that body is
\* what the delivery step receives.
C8_ParseErrorReported ==
    (parsed # <<>> /\ ParseRaises)
    => /\ Report.kind = "error"
       /\ parsed[1].slotCount = 0
       /\ pc = "done" => /\ Len(Delivered) = 1
                         /\ Delivered[1].content.kind = "error"
       /\ (pc = "done" /\ ~isDryRun) => sent[1].subject = 0

\* C8 witness: a normal run delivered the error fragment although a
\* timetable processed before the raising one held a slot that passes the
\* whitelist
C8_Witness ==
    /\ pc = "done"
    /\ ~isDryRun
    /\ ParseRaises
    /\ \E p \in AllPieces : PassesWhitelist(p)
    /\ Len(sent) = 1
    /\ sent[1].html.content.kind = "error"

C10_RowsAscending ==
    parsed # <<>> =>
        \A s \in 1..Len(Report.sections) :
            LET section == Report.sections[s]
                slots   == availableSlots[section.date]
            IN  /\ { section.rows[r].time : r \in 1..Len(section.rows) }
                      = { slots[k].start : k \in 1..Len(slots) }
                /\ \A r1, r2 \in 1..Len(section.rows) :
                      r1 < r2 => LabelMinutes(section.rows[r1].time)
                                    < LabelMinutes(section.rows[r2].time)

\* C11: the query window has at most Horizon dates, is strictly increasing,
\* and no date sent to the API (the UTC date formatDate produces) is a
\* Saturday or a Sunday.
C11_NoWeekendQueried ==
    pc = "waiting" =>
        /\ Len(requests) <= Horizon
        /\ \A k1, k2 \in 1..Len(requests) : k1 < k2 => requests[k1] < requests[k2]
        /\ \A k \in 1..Len(requests) : getDay(requests[k]) \notin {0, 6}

\* C12 as stated: in normal mode the slot count of the subject equals the
\* number of non-empty cells of the delivered body.
C12_SubjectMatchesCells ==
    (~isDryRun /\ pc = "done")
    => sent[1].subject = Cardinality(OccupiedCells(sent[1].html.content))

\* no two surviving pieces are the same slot (date field, start, facility)
NoSlotListedTwice ==
    \A p, q \in AllPieces :
        (Survives(p) /\ Survives(q) /\ p.pos # q.pos) => CellOf(p) # CellOf(q)

\* no two responses with surviving pieces report the same date field
NoSharedDateField ==
    \A p, q \in AllPieces :
        (Survives(p) /\ Survives(q) /\ p.date = q.date) => p.pos[1] = q.pos[1]

\* C12 amended: in normal mode the slot count of the subject is never
\* smaller than the number of non-empty cells of the delivered body, and the
\* two are equal when no slot is listed twice and no two responses with
\* surviving slots report the same date field.
C12_SubjectCoversCells ==
    (~isDryRun /\ pc = "done")
    => /\ sent[1].subject >= Cardinality(OccupiedCells(sent[1].html.content))
       /\ (NoSlotListedTwice /\ NoSharedDateField)
             => sent[1].subject
                   = Cardinality(OccupiedCells(sent[1].html.content))

\* C12 witness: a normal run delivered a table although two responses with
\* slots that pass the whitelist reported the same date field
C12_Witness ==
    /\ ~isDryRun
    /\ pc = "done"
    /\ ~NoSharedDateField
    /\ sent[1].html.content.kind = "tables"
    /\ sent[1].subject > Cardinality(OccupiedCells(sent[1].html.content))

====
